---- MODULE Spec2Model ----
(***************************************************************************)
(* A model of rust-lispy: the position-tracking tokenizer of src/tok.rs    *)
(* (GreedyTokenizer) and the recursive-descent parser of src/parser.rs     *)
(* (RecursiveDescentParser), driven either by the GreedyTokenizer or by    *)
(* the MockyTokenizer of the parser's tests.                               *)
(*                                                                         *)
(* Characters are one-character strings, Rust Strings are sequences of     *)
(* characters, the None of an Option<char> is the string "None", and an    *)
(* f64 produced from a decimal literal is the pair <<m, e>> standing for   *)
(* m / 10^e with no trailing zero in m when e > 0.                         *)
(* Reads are from an in-memory byte slice and never fail.                  *)
(***************************************************************************)
EXTENDS Integers, Sequences, FiniteSets, TLC

\* ------------------------------------------------------------------ bounds
MaxInputLen == 4
MaxTokens == 4
MaxFormTokens == 7
MaxCalls == 3
MaxEofs == 2

\* --------------------------------------------------------------- characters
SPACE_CHAR == " "
NEWLINE_CHAR == "\n"
CARRIAGE_RETURN_CHAR == "\r"
None == "None"
NoToken == [kind |-> "None"]

Letters == {"a", "b", "d", "e", "f", "g", "i", "n", "o", "q", "s", "t", "u", "x"}
Digits == {"0", "1", "2", "3", "4", "5", "6", "7", "8", "9"}

is_alphabetic(tok) == tok.chr \in Letters

is_identifier_like(tok) == tok.chr \in Letters \cup Digits \/ tok.chr = "_"

is_number_like(tok) == tok.chr \in Digits \/ tok.chr = "."

\* ------------------------------------------------------------------- tokens
OpenParen == [kind |-> "OpenParen"]
CloseParen == [kind |-> "CloseParen"]
Eof == [kind |-> "Eof"]
Ns == [kind |-> "Ns"]
Def == [kind |-> "Def"]
Defn == [kind |-> "Defn"]
Fn == [kind |-> "Fn"]
Quote == [kind |-> "Quote"]
If == [kind |-> "If"]
Identifier(name) == [kind |-> "Identifier", name |-> name]
Number(val) == [kind |-> "Number", val |-> val]
Unknown(chr) == [kind |-> "Unknown", chr |-> chr]

Position(line, position) == [line |-> line, position |-> position]

TokenAndSpan(token, from, to) == [token |-> token, from |-> from, to |-> to]

CharAndPosition(chr, line, position) ==
    [chr |-> chr, line |-> line, position |-> position]

from_str(string_value) ==
    CASE string_value = <<"n", "s">> -> Ns
      [] string_value = <<"d", "e", "f">> -> Def
      [] string_value = <<"d", "e", "f", "n">> -> Defn
      [] string_value = <<"f", "n">> -> Fn
      [] string_value = <<"q", "u", "o", "t", "e">> -> Quote
      [] string_value = <<"i", "f">> -> If
      [] OTHER -> NoToken

from_char_NoPlus(char_value) ==
    IF char_value \in {"-", "*", "/"}
    THEN Identifier(<<char_value>>)
    ELSE NoToken

from_char_EmptyName(char_value) ==
    IF char_value \in {"+", "-", "*", "/"}
    THEN Identifier(<<>>)
    ELSE NoToken

from_char(char_value) ==
    IF char_value \in {"+", "-", "*", "/"}
    THEN Identifier(<<char_value>>)
    ELSE NoToken

\* ---------------------------------------------------- str::parse::<f64>()
DigitValue(c) ==
    CASE c = "0" -> 0 [] c = "1" -> 1 [] c = "2" -> 2 [] c = "3" -> 3
      [] c = "4" -> 4 [] c = "5" -> 5 [] c = "6" -> 6 [] c = "7" -> 7
      [] c = "8" -> 8 [] c = "9" -> 9

RECURSIVE Normalize(_)
Normalize(v) ==
    IF v[2] > 0 /\ v[1] % 10 = 0
    THEN Normalize(<<v[1] \div 10, v[2] - 1>>)
    ELSE v

RECURSIVE DecimalValue(_, _, _, _)
DecimalValue(numstr, i, mantissa, scale) ==
    IF i > Len(numstr)
    THEN Normalize(<<mantissa, IF scale < 0 THEN 0 ELSE scale>>)
    ELSE IF numstr[i] = "."
         THEN DecimalValue(numstr, i + 1, mantissa, 0)
         ELSE DecimalValue(numstr, i + 1, mantissa * 10 + DigitValue(numstr[i]),
                           IF scale < 0 THEN scale ELSE scale + 1)

ParseFloat(numstr) ==
    LET dots == {i \in 1..Len(numstr) : numstr[i] = "."}
        digits == {i \in 1..Len(numstr) : numstr[i] \in Digits}
    IN  IF Cardinality(dots) <= 1 /\ digits # {}
        THEN [ok |-> TRUE, val |-> DecimalValue(numstr, 1, 0, -1)]
        ELSE [ok |-> FALSE, val |-> <<0, 0>>]

ReadError(text, from, to) ==
    [kind |-> "ReadError", text |-> text, from |-> from, to |-> to]

\* --------------------------------------------------------- GreedyTokenizer
step_next_char_CountsPastEnd(t) ==
    IF t.inbuf # <<>>
    THEN LET chr == Head(t.inbuf)
             newline == chr = NEWLINE_CHAR \/ chr = CARRIAGE_RETURN_CHAR
         IN  [inbuf |-> Tail(t.inbuf),
              current_char |-> CharAndPosition(chr, t.line, t.position),
              line |-> IF newline THEN t.line + 1 ELSE t.line,
              position |-> IF newline THEN 0 ELSE t.position + 1]
    ELSE [t EXCEPT !.current_char = CharAndPosition(None, t.line, t.position),
                   !.position = t.position + 1]

step_next_char_NewlineOnly(t) ==
    IF t.inbuf # <<>>
    THEN LET chr == Head(t.inbuf)
             newline == chr = NEWLINE_CHAR
         IN  [inbuf |-> Tail(t.inbuf),
              current_char |-> CharAndPosition(chr, t.line, t.position),
              line |-> IF newline THEN t.line + 1 ELSE t.line,
              position |-> IF newline THEN 0 ELSE t.position + 1]
    ELSE [t EXCEPT !.current_char = CharAndPosition(None, t.line, t.position)]

\* A tokenizer value t is the record of the fields of GreedyTokenizer.
step_next_char(t) ==
    IF t.inbuf # <<>>
    THEN LET chr == Head(t.inbuf)
             newline == chr = NEWLINE_CHAR \/ chr = CARRIAGE_RETURN_CHAR
         IN  [inbuf |-> Tail(t.inbuf),
              current_char |-> CharAndPosition(chr, t.line, t.position),
              line |-> IF newline THEN t.line + 1 ELSE t.line,
              position |-> IF newline THEN 0 ELSE t.position + 1]
    ELSE [t EXCEPT !.current_char = CharAndPosition(None, t.line, t.position)]

GreedyTokenizerNew(inbuf) ==
    step_next_char([inbuf |-> inbuf, line |-> 0, position |-> 0,
                    current_char |-> CharAndPosition(None, 0, 0)])

RECURSIVE SkipWhitespace(_)
SkipWhitespace(t) ==
    IF t.current_char.chr = SPACE_CHAR THEN SkipWhitespace(step_next_char(t)) ELSE t

RECURSIVE SkipCommentBody_ThroughLineBreaks(_)
SkipCommentBody_ThroughLineBreaks(t) ==
    IF t.current_char.chr # None
    THEN SkipCommentBody_ThroughLineBreaks(step_next_char(t))
    ELSE t

RECURSIVE SkipCommentBody(_)
SkipCommentBody(t) ==
    IF /\ t.current_char.chr # NEWLINE_CHAR
       /\ t.current_char.chr # CARRIAGE_RETURN_CHAR
       /\ t.current_char.chr # None
    THEN SkipCommentBody(step_next_char(t))
    ELSE t

SkipComment_ThroughTerminator(t) ==
    IF t.current_char.chr = "#"
    THEN IF SkipCommentBody(t).current_char.chr # None
         THEN step_next_char(SkipCommentBody(t))
         ELSE SkipCommentBody(t)
    ELSE t

SkipComment(t) ==
    IF t.current_char.chr = "#" THEN SkipCommentBody(t) ELSE t

RECURSIVE ConsumeIdentifier_StopsAtKeyword(_, _)
ConsumeIdentifier_StopsAtKeyword(t, ident) ==
    IF is_identifier_like(t.current_char) /\ from_str(ident) = NoToken
    THEN ConsumeIdentifier_StopsAtKeyword(step_next_char(t),
                                          Append(ident, t.current_char.chr))
    ELSE [t |-> t, text |-> ident]

RECURSIVE ConsumeIdentifier(_, _)
ConsumeIdentifier(t, ident) ==
    IF is_identifier_like(t.current_char)
    THEN ConsumeIdentifier(step_next_char(t), Append(ident, t.current_char.chr))
    ELSE [t |-> t, text |-> ident]

RECURSIVE ConsumeNumber_DropsTerminator(_, _)
ConsumeNumber_DropsTerminator(t, numstr) ==
    IF is_number_like(t.current_char)
    THEN ConsumeNumber_DropsTerminator(step_next_char(t),
                                       Append(numstr, t.current_char.chr))
    ELSE [t |-> step_next_char(t), text |-> numstr]

RECURSIVE ConsumeNumber(_, _)
ConsumeNumber(t, numstr) ==
    IF is_number_like(t.current_char)
    THEN ConsumeNumber(step_next_char(t), Append(numstr, t.current_char.chr))
    ELSE [t |-> t, text |-> numstr]

\* get_token returns the pair (result, tokenizer after the call); result is
\* [ok |-> TRUE, tas |-> TokenAndSpan] or [ok |-> FALSE, err |-> ReadError].
OkToken(token, from, to) == [ok |-> TRUE, tas |-> TokenAndSpan(token, from, to)]

ErrToken(err) == [ok |-> FALSE, err |-> err]

IdentifierToken_ToPastTheRun(from, c) ==
    LET to == Position(c.t.current_char.line, c.t.current_char.position)
        reserved_token == from_str(c.text)
    IN  IF reserved_token # NoToken
        THEN [res |-> OkToken(reserved_token, from, to), t |-> c.t]
        ELSE [res |-> OkToken(Identifier(c.text), from, to), t |-> c.t]

\* An identifier or keyword token made of the consumed characters c.text.
IdentifierToken(from, c) ==
    LET to == Position(c.t.current_char.line, c.t.current_char.position - 1)
        reserved_token == from_str(c.text)
    IN  IF reserved_token # NoToken
        THEN [res |-> OkToken(reserved_token, from, to), t |-> c.t]
        ELSE [res |-> OkToken(Identifier(c.text), from, to), t |-> c.t]

NumberToken_ToPastTheRun(from, c) ==
    LET to == Position(c.t.current_char.line, c.t.current_char.position)
        parsed == ParseFloat(c.text)
    IN  IF parsed.ok
        THEN [res |-> OkToken(Number(parsed.val), from, to), t |-> c.t]
        ELSE [res |-> ErrToken(ReadError(c.text, from, to)), t |-> c.t]

\* A number token, or the ReadError, made of the consumed characters c.text.
NumberToken(from, c) ==
    LET to == Position(c.t.current_char.line, c.t.current_char.position - 1)
        parsed == ParseFloat(c.text)
    IN  IF parsed.ok
        THEN [res |-> OkToken(Number(parsed.val), from, to), t |-> c.t]
        ELSE [res |-> ErrToken(ReadError(c.text, from, to)), t |-> c.t]

\* get_token once whitespace and a comment have been skipped.
TokenAt(t) ==
    LET tok == t.current_char
        here == Position(tok.line, tok.position)
    IN  IF tok.chr = "("
        THEN [res |-> OkToken(OpenParen, here, here), t |-> step_next_char(t)]
        ELSE IF tok.chr = ")"
        THEN [res |-> OkToken(CloseParen, here, here), t |-> step_next_char(t)]
        ELSE IF is_alphabetic(tok)
        THEN IdentifierToken(here, ConsumeIdentifier(t, <<>>))
        ELSE IF is_number_like(tok)
        THEN NumberToken(here, ConsumeNumber(t, <<>>))
        ELSE IF tok.chr # None
        THEN IF from_char(tok.chr) # NoToken
             THEN [res |-> OkToken(from_char(tok.chr), here, here), t |-> step_next_char(t)]
             ELSE [res |-> OkToken(Unknown(tok.chr), here, here), t |-> step_next_char(t)]
        ELSE [res |-> OkToken(Eof, here, here), t |-> step_next_char(t)]

get_token(t) == TokenAt(SkipComment(SkipWhitespace(t)))

\* ---------------------------------------------------------------------- AST
NoAST == [type |-> "None"]
NumberExpr(val) == [type |-> "NumberExpr", val |-> val]
VariableExpr(name) == [type |-> "VariableExpr", name |-> name]
EvaluateExpr(callee, args) == [type |-> "EvaluateExpr", callee |-> callee, args |-> args]
FunctionExpr(parameters, statements) ==
    [type |-> "FunctionExpr", parameters |-> parameters, statements |-> statements]

ASSIGN == <<"_", "_", "a", "s", "s", "i", "g", "n">>

\* --------------------------------------------------------------- ParseError
MismatchedParens(position) == [kind |-> "MismatchedParens", position |-> position]
FunctionNeedsABody == [kind |-> "FunctionNeedsABody"]
UnexpectedTokenError(expected, found, from, to) ==
    [kind |-> "UnexpectedTokenError", expected |-> expected, found |-> found,
     from |-> from, to |-> to]
UnexpectedExpressionError(expected, found, position) ==
    [kind |-> "UnexpectedExpressionError", expected |-> expected, found |-> found,
     position |-> position]
TokenizerError(tokenizer_error) == [kind |-> "TokenizerError", error |-> tokenizer_error]
UnknownError(message) == [kind |-> "UnknownError", message |-> message]

\* Outcomes of the parser's functions: Ok, Err, or a panic of the thread
\* (index out of range, unwrap of None).
OkSlice(slice) == [tag |-> "Ok", slice |-> slice]
OkEval(result, parsed) == [tag |-> "Ok", result |-> result, parsed |-> parsed]
OkNone == [tag |-> "OkNone"]
OkSome(ast) == [tag |-> "OkSome", ast |-> ast]
Err(err) == [tag |-> "Err", err |-> err]
Panic == [tag |-> "Panic"]

\* Zero-based indexing and &slice[i..] of Rust slices.
At(tokens_and_spans, i) == tokens_and_spans[i + 1]
SliceFrom(tokens_and_spans, i) == SubSeq(tokens_and_spans, i + 1, Len(tokens_and_spans))

ParenDelta_IdentifierOpens(token) ==
    CASE token.kind = "OpenParen" -> 1
      [] token.kind = "Identifier" -> 1
      [] token.kind = "CloseParen" -> -1
      [] OTHER -> 0

ParenDelta(token) ==
    CASE token.kind = "OpenParen" -> 1
      [] token.kind = "CloseParen" -> -1
      [] OTHER -> 0

\* ------------------------------------------------ RecursiveDescentParser
RECURSIVE SliceLoop(_, _, _)
SliceLoop(tokens_and_spans, paren_count, end_idx) ==
    IF end_idx >= Len(tokens_and_spans)
    THEN [paren_count |-> paren_count, end_idx |-> end_idx]
    ELSE LET count == paren_count + ParenDelta(At(tokens_and_spans, end_idx).token)
         IN  IF count <= 0
             THEN [paren_count |-> count, end_idx |-> end_idx + 1]
             ELSE SliceLoop(tokens_and_spans, count, end_idx + 1)

SliceResult(tokens_and_spans, r) ==
    IF r.paren_count # 0
    THEN IF r.end_idx = 0
         THEN Panic
         ELSE Err(MismatchedParens(At(tokens_and_spans, r.end_idx - 1).from))
    ELSE OkSlice(SubSeq(tokens_and_spans, 1, r.end_idx))

slice_until_tokens_match(tokens_and_spans) ==
    SliceResult(tokens_and_spans, SliceLoop(tokens_and_spans, 0, 0))

WithinBrackets(r) ==
    IF r.tag # "Ok"
    THEN r
    ELSE IF Len(r.slice) < 2
         THEN Panic
         ELSE OkSlice(SubSeq(r.slice, 2, Len(r.slice) - 1))

find_tokens_within_brackets(tokens_and_spans) ==
    WithinBrackets(slice_until_tokens_match(tokens_and_spans))

\* The loop of recursively_evaluate goes on with (result, parsed).
Continue(result, parsed) == [tag |-> "Continue", result |-> result, parsed |-> parsed]

DefArm_SpanOfDef(tokens_and_spans, result, parsed, r) ==
    IF parsed + 1 >= Len(tokens_and_spans)
    THEN Panic
    ELSE LET next == At(tokens_and_spans, parsed + 1)
         IN  IF next.token.kind = "Identifier"
             THEN IF r.tag # "Ok"
                  THEN r
                  ELSE IF Len(r.result) > 1
                  THEN IF parsed + 3 >= Len(tokens_and_spans)
                       THEN Panic
                       ELSE Err(UnexpectedExpressionError(
                                    NoAST, r.result[2],
                                    At(tokens_and_spans, parsed + 3).from))
                  ELSE IF r.result = <<>>
                  THEN Panic
                  ELSE Continue(Append(result,
                                       EvaluateExpr(ASSIGN,
                                                    <<VariableExpr(next.token.name),
                                                      r.result[Len(r.result)]>>)),
                                parsed + 1 + r.parsed + 1)
             ELSE Err(UnexpectedTokenError(Identifier(<<"_">>), next.token,
                                           At(tokens_and_spans, parsed).from,
                                           At(tokens_and_spans, parsed).to))

\* The arms of the match in recursively_evaluate. Each takes as r the outcome
\* of the recursive call the arm makes (it is evaluated only where the arm
\* makes the call) and yields Err, Panic, or Continue with `parsed` already
\* advanced by the `parsed += 1` that ends the loop body.
DefArm(tokens_and_spans, result, parsed, r) ==
    IF parsed + 1 >= Len(tokens_and_spans)
    THEN Panic
    ELSE LET next == At(tokens_and_spans, parsed + 1)
         IN  IF next.token.kind = "Identifier"
             THEN IF r.tag # "Ok"
                  THEN r
                  ELSE IF Len(r.result) > 1
                  THEN IF parsed + 3 >= Len(tokens_and_spans)
                       THEN Panic
                       ELSE Err(UnexpectedExpressionError(
                                    NoAST, r.result[2],
                                    At(tokens_and_spans, parsed + 3).from))
                  ELSE IF r.result = <<>>
                  THEN Panic
                  ELSE Continue(Append(result,
                                       EvaluateExpr(ASSIGN,
                                                    <<VariableExpr(next.token.name),
                                                      r.result[Len(r.result)]>>)),
                                parsed + 1 + r.parsed + 1)
             ELSE Err(UnexpectedTokenError(Identifier(<<"_">>), next.token,
                                           next.from, next.to))

\* The parameter list of a function: the tokens within the brackets that
\* start at parsed + 1, which must all be identifiers.
ParameterNames(args_and_spans) ==
    IF args_and_spans.tag # "Ok"
    THEN args_and_spans
    ELSE LET args == args_and_spans.slice
             bad == {i \in 1..Len(args) : args[i].token.kind # "Identifier"}
         IN  IF bad # {}
             THEN LET first == args[CHOOSE i \in bad : \A j \in bad : i <= j]
                  IN  Err(UnexpectedTokenError(Identifier(<<"_">>), first.token,
                                               first.from, first.to))
             ELSE OkSlice([i \in 1..Len(args) |-> args[i].token.name])

FnParameters(tokens_and_spans, parsed) ==
    ParameterNames(find_tokens_within_brackets(SliceFrom(tokens_and_spans, parsed + 1)))

FnBodyTokens_KeepsBrackets(tokens_and_spans, parsed, parameters) ==
    slice_until_tokens_match(
        SliceFrom(tokens_and_spans, parsed + 2 + Len(parameters) + 1))

\* The tokens of the function body: those within the brackets that follow
\* the parameter list.
FnBodyTokens(tokens_and_spans, parsed, parameters) ==
    find_tokens_within_brackets(
        SliceFrom(tokens_and_spans, parsed + 2 + Len(parameters) + 1))

FnBody_NoOpenParenCheck(tokens_and_spans, result, parsed, parameters, function_body_tokens, r) ==
    LET total_tokens_parsed == 2 + Len(parameters)
        open == At(tokens_and_spans, parsed + total_tokens_parsed + 1)
    IN  IF function_body_tokens.tag # "Ok"
        THEN function_body_tokens
        ELSE IF r.tag # "Ok"
        THEN r
        ELSE IF r.parsed = 0
        THEN Err(FunctionNeedsABody)
        ELSE Continue(Append(result, FunctionExpr(parameters, r.result)),
                      parsed + total_tokens_parsed + 2 + r.parsed + 1)

FnBody_AcceptsEmptyBody(tokens_and_spans, result, parsed, parameters, function_body_tokens, r) ==
    LET total_tokens_parsed == 2 + Len(parameters)
        open == At(tokens_and_spans, parsed + total_tokens_parsed + 1)
    IN  IF open.token # OpenParen
        THEN Err(UnexpectedTokenError(OpenParen, open.token, open.from, open.to))
        ELSE IF function_body_tokens.tag # "Ok"
        THEN function_body_tokens
        ELSE IF r.tag # "Ok"
        THEN r
        ELSE Continue(Append(result, FunctionExpr(parameters, r.result)),
                      parsed + total_tokens_parsed + 2 + r.parsed + 1)

\* The Fn arm once the parameter list has been read; function_body_tokens
\* is the outcome of find_tokens_within_brackets on the body.
FnBody(tokens_and_spans, result, parsed, parameters, function_body_tokens, r) ==
    LET total_tokens_parsed == 2 + Len(parameters)
        open == At(tokens_and_spans, parsed + total_tokens_parsed + 1)
    IN  IF open.token # OpenParen
        THEN Err(UnexpectedTokenError(OpenParen, open.token, open.from, open.to))
        ELSE IF function_body_tokens.tag # "Ok"
        THEN function_body_tokens
        ELSE IF r.tag # "Ok"
        THEN r
        ELSE IF r.parsed = 0
        THEN Err(FunctionNeedsABody)
        ELSE Continue(Append(result, FunctionExpr(parameters, r.result)),
                      parsed + total_tokens_parsed + 2 + r.parsed + 1)

FnWithParameters(tokens_and_spans, result, parsed, parameters, r) ==
    IF parameters.tag # "Ok"
    THEN parameters
    ELSE IF parsed + 2 + Len(parameters.slice) + 1 >= Len(tokens_and_spans)
    THEN Panic
    ELSE FnBody(tokens_and_spans, result, parsed, parameters.slice,
                FnBodyTokens(tokens_and_spans, parsed, parameters.slice), r)

FnArm(tokens_and_spans, result, parsed, r) ==
    IF parsed + 1 >= Len(tokens_and_spans)
    THEN Panic
    ELSE LET next == At(tokens_and_spans, parsed + 1)
         IN  IF next.token = OpenParen
             THEN FnWithParameters(tokens_and_spans, result, parsed,
                                   FnParameters(tokens_and_spans, parsed), r)
             ELSE Err(UnexpectedTokenError(OpenParen, next.token, next.from, next.to))

OpenParenArm_AcceptsEmptyGroup(tokens_and_spans, result, parsed, r) ==
    IF r.tag # "Ok"
    THEN r
    ELSE LET stuff == r.result
             now == parsed + r.parsed
         IN  IF stuff = <<>>
             THEN Continue(result, now + 1)
             ELSE IF stuff[1].type = "VariableExpr"
             THEN Continue(Append(result, EvaluateExpr(stuff[1].name, Tail(stuff))),
                           now + 1)
             ELSE IF Len(stuff) = 1 /\ stuff[1].type \in {"EvaluateExpr", "FunctionExpr"}
             THEN Continue(Append(result, stuff[1]), now + 1)
             ELSE IF now >= Len(tokens_and_spans)
             THEN Panic
             ELSE Err(UnexpectedExpressionError(VariableExpr(<<"_">>), stuff[1],
                                                At(tokens_and_spans, now).from))

OpenParenArm(tokens_and_spans, result, parsed, r) ==
    IF r.tag # "Ok"
    THEN r
    ELSE LET stuff == r.result
             now == parsed + r.parsed
         IN  IF stuff # <<>> /\ stuff[1].type = "VariableExpr"
             THEN Continue(Append(result, EvaluateExpr(stuff[1].name, Tail(stuff))),
                           now + 1)
             ELSE IF Len(stuff) = 1 /\ stuff[1].type \in {"EvaluateExpr", "FunctionExpr"}
             THEN Continue(Append(result, stuff[1]), now + 1)
             ELSE IF now >= Len(tokens_and_spans)
             THEN Panic
             ELSE Err(UnexpectedExpressionError(
                          VariableExpr(<<"_">>),
                          IF stuff = <<>> THEN NoAST ELSE stuff[1],
                          At(tokens_and_spans, now).from))

\* The slice the arm at `parsed` hands to its recursive call.
NestedSlice(tokens_and_spans, parsed) ==
    LET kind == At(tokens_and_spans, parsed).token.kind
    IN  CASE kind = "Def" -> SliceFrom(tokens_and_spans, parsed + 2)
          [] kind = "OpenParen" -> SliceFrom(tokens_and_spans, parsed + 1)
          [] kind = "Fn" ->
                FnBodyTokens(tokens_and_spans, parsed,
                             FnParameters(tokens_and_spans, parsed).slice).slice

MatchToken_SkipsUnknown(tokens_and_spans, result, parsed, r) ==
    LET cur == At(tokens_and_spans, parsed)
    IN  CASE cur.token.kind = "Number" ->
               Continue(Append(result, NumberExpr(cur.token.val)), parsed + 1)
          [] cur.token.kind = "Identifier" ->
               Continue(Append(result, VariableExpr(cur.token.name)), parsed + 1)
          [] cur.token.kind = "Def" -> DefArm(tokens_and_spans, result, parsed, r)
          [] cur.token.kind = "Fn" -> FnArm(tokens_and_spans, result, parsed, r)
          [] cur.token.kind = "OpenParen" ->
               OpenParenArm(tokens_and_spans, result, parsed, r)
          [] cur.token.kind = "CloseParen" -> OkEval(result, parsed)
          [] cur.token.kind = "Unknown" ->
               Continue(result, parsed + 1)

\* The match on tokens_and_spans[parsed].token; r is the outcome of the
\* recursive call of the arm taken.
MatchToken(tokens_and_spans, result, parsed, r) ==
    LET cur == At(tokens_and_spans, parsed)
    IN  CASE cur.token.kind = "Number" ->
               Continue(Append(result, NumberExpr(cur.token.val)), parsed + 1)
          [] cur.token.kind = "Identifier" ->
               Continue(Append(result, VariableExpr(cur.token.name)), parsed + 1)
          [] cur.token.kind = "Def" -> DefArm(tokens_and_spans, result, parsed, r)
          [] cur.token.kind = "Fn" -> FnArm(tokens_and_spans, result, parsed, r)
          [] cur.token.kind = "OpenParen" ->
               OpenParenArm(tokens_and_spans, result, parsed, r)
          [] cur.token.kind = "CloseParen" -> OkEval(result, parsed)
          [] cur.token.kind = "Unknown" ->
               Err(UnexpectedTokenError(NoToken, cur.token, cur.from, cur.to))

\* recursively_evaluate from the state (result, parsed) of its loop.
RECURSIVE EvalLoop(_, _, _)
RECURSIVE LoopOn(_, _)
EvalLoop(tokens_and_spans, result, parsed) ==
    IF parsed < Len(tokens_and_spans)
    THEN LoopOn(tokens_and_spans,
                MatchToken(tokens_and_spans, result, parsed,
                           EvalLoop(NestedSlice(tokens_and_spans, parsed), <<>>, 0)))
    ELSE OkEval(result, parsed)

LoopOn(tokens_and_spans, step) ==
    IF step.tag = "Continue"
    THEN EvalLoop(tokens_and_spans, step.result, step.parsed)
    ELSE step

recursively_evaluate(tokens_and_spans) == EvalLoop(tokens_and_spans, <<>>, 0)

\* ------------------------------------------------------ the token iterators
\* An iterator value is [kind, returns, t]: the MockyTokenizer pops `returns`
\* and the GreedyTokenizer t is pulled through get_token.
Reverse(seq) == [i \in 1..Len(seq) |-> seq[Len(seq) + 1 - i]]

NoItem == [some |-> FALSE]
SomeItem(res) == [some |-> TRUE, res |-> res]

MockyTokenizerNew(items) == Reverse(items)

MockyTokenizerNext(it) ==
    IF it.returns = <<>>
    THEN [item |-> NoItem, it |-> it]
    ELSE [item |-> SomeItem(it.returns[Len(it.returns)]),
          it |-> [it EXCEPT !.returns = SubSeq(it.returns, 1, Len(it.returns) - 1)]]

\* The sequence view of the GreedyTokenizer: the Eof token is the end of the
\* sequence, every other result of get_token is an item.
GreedyItem(it, g) ==
    IF g.res.ok /\ g.res.tas.token = Eof
    THEN [item |-> NoItem, it |-> [it EXCEPT !.t = g.t]]
    ELSE [item |-> SomeItem(g.res), it |-> [it EXCEPT !.t = g.t]]

GreedyTokenizerNext(it) == GreedyItem(it, get_token(it.t))

IterNext(it) ==
    IF it.kind = "mock" THEN MockyTokenizerNext(it) ELSE GreedyTokenizerNext(it)

\* The body of the `for` loop of extract_until_brackets_match on the item n
\* pulled from the iterator.
RECURSIVE ExtractLoop(_, _, _)
RECURSIVE ExtractStep(_, _, _)
ExtractLoop(it, paren_count, extracted_tokens) ==
    ExtractStep(IterNext(it), paren_count, extracted_tokens)

ExtractStep_SkipsErrors(n, paren_count, extracted_tokens) ==
    IF ~n.item.some
    THEN [it |-> n.it, paren_count |-> paren_count, extracted_tokens |-> extracted_tokens,
          failed |-> FALSE, ended |-> TRUE]
    ELSE IF ~n.item.res.ok
    THEN ExtractLoop(n.it, paren_count, extracted_tokens)
    ELSE LET token_and_span == n.item.res.tas
             count == paren_count + ParenDelta(token_and_span.token)
             tokens == Append(extracted_tokens, token_and_span)
         IN  IF count <= 0
             THEN [it |-> n.it, paren_count |-> count, extracted_tokens |-> tokens,
                   failed |-> FALSE, ended |-> FALSE]
             ELSE ExtractLoop(n.it, count, tokens)

ExtractStep_BreakBelowZero(n, paren_count, extracted_tokens) ==
    IF ~n.item.some
    THEN [it |-> n.it, paren_count |-> paren_count, extracted_tokens |-> extracted_tokens,
          failed |-> FALSE, ended |-> TRUE]
    ELSE IF ~n.item.res.ok
    THEN [it |-> n.it, paren_count |-> paren_count, extracted_tokens |-> extracted_tokens,
          failed |-> TRUE, err |-> TokenizerError(n.item.res.err), ended |-> FALSE]
    ELSE LET token_and_span == n.item.res.tas
             count == paren_count + ParenDelta(token_and_span.token)
             tokens == Append(extracted_tokens, token_and_span)
         IN  IF count < 0
             THEN [it |-> n.it, paren_count |-> count, extracted_tokens |-> tokens,
                   failed |-> FALSE, ended |-> FALSE]
             ELSE ExtractLoop(n.it, count, tokens)

ExtractStep(n, paren_count, extracted_tokens) ==
    IF ~n.item.some
    THEN [it |-> n.it, paren_count |-> paren_count, extracted_tokens |-> extracted_tokens,
          failed |-> FALSE, ended |-> TRUE]
    ELSE IF ~n.item.res.ok
    THEN [it |-> n.it, paren_count |-> paren_count, extracted_tokens |-> extracted_tokens,
          failed |-> TRUE, err |-> TokenizerError(n.item.res.err), ended |-> FALSE]
    ELSE LET token_and_span == n.item.res.tas
             count == paren_count + ParenDelta(token_and_span.token)
             tokens == Append(extracted_tokens, token_and_span)
         IN  IF count <= 0
             THEN [it |-> n.it, paren_count |-> count, extracted_tokens |-> tokens,
                   failed |-> FALSE, ended |-> FALSE]
             ELSE ExtractLoop(n.it, count, tokens)

ExtractResult_FirstTokenPosition(e) ==
    LET out == IF e.failed
               THEN Err(e.err)
               ELSE IF e.paren_count # 0
               THEN IF e.extracted_tokens = <<>>
                    THEN Panic
                    ELSE Err(MismatchedParens(e.extracted_tokens[1].from))
               ELSE OkSlice(e.extracted_tokens)
    IN  [it |-> e.it, out |-> out, pulled |-> e.extracted_tokens, ended |-> e.ended]

\* The outcome of extract_until_brackets_match, with the iterator after the
\* call, the tokens pulled and whether the iterator reported its end.
ExtractResult(e) ==
    LET out == IF e.failed
               THEN Err(e.err)
               ELSE IF e.paren_count # 0
               THEN IF e.extracted_tokens = <<>>
                    THEN Panic
                    ELSE Err(MismatchedParens(
                                 e.extracted_tokens[Len(e.extracted_tokens)].from))
               ELSE OkSlice(e.extracted_tokens)
    IN  [it |-> e.it, out |-> out, pulled |-> e.extracted_tokens, ended |-> e.ended]

extract_until_brackets_match(it) == ExtractResult(ExtractLoop(it, 0, <<>>))

\* The match on asts.len() in next_expression; r is the outcome of
\* recursively_evaluate.
ExactlyOne(r) ==
    IF r.tag # "Ok"
    THEN r
    ELSE IF Len(r.result) = 1
    THEN OkSome(r.result[1])
    ELSE IF Len(r.result) > 1
    THEN Err(UnknownError("multiple statements"))
    ELSE Err(UnknownError("Here we are but how"))

ExpressionOf_NoEmptyCheck(e) ==
    [it |-> e.it,
     out |-> IF e.out.tag # "Ok"
             THEN e.out
             ELSE ExactlyOne(recursively_evaluate(e.out.slice)),
     pulled |-> e.pulled,
     ended |-> e.ended]

\* next_expression on the outcome e of extract_until_brackets_match.
ExpressionOf(e) ==
    [it |-> e.it,
     out |-> IF e.out.tag # "Ok"
             THEN e.out
             ELSE IF e.out.slice = <<>>
             THEN OkNone
             ELSE ExactlyOne(recursively_evaluate(e.out.slice)),
     pulled |-> e.pulled,
     ended |-> e.ended]

next_expression(it) == ExpressionOf(extract_until_brackets_match(it))

\* ------------------------------------------------------------------- inputs
\* Source forms: an atom, an application (name a1 ... an) or (def name r1 ... rn).
AtomForm(token) == [form |-> "atom", token |-> token]
AppForm(name, args) == [form |-> "app", name |-> name, args |-> args]
DefForm(name, rest) == [form |-> "def", name |-> name, rest |-> rest]
GroupForm(items) == [form |-> "group", items |-> items]
FnForm(parameters, statements) ==
    [form |-> "fn", parameters |-> parameters, statements |-> statements]

SeqsUpTo(S, n) == UNION {[1..k -> S] : k \in 0..n}

RECURSIVE Flatten(_)
Flatten(seqs) == IF seqs = <<>> THEN <<>> ELSE Head(seqs) \o Flatten(Tail(seqs))

Atoms == {AtomForm(Number(<<1, 0>>)), AtomForm(Identifier(<<"a">>))}

\* The forms made of exactly n tokens, and the sequences of forms made of
\* exactly n tokens together.
RECURSIVE FormsOfSize(_)
RECURSIVE FormSeqsOfSize(_)
FormsOfSize(n) ==
    IF n = 1
    THEN Atoms
    ELSE IF n < 3
    THEN {}
    ELSE {AppForm(<<"f">>, args) : args \in FormSeqsOfSize(n - 3)}

FormSeqsOfSize(n) ==
    IF n = 0
    THEN {<<>>}
    ELSE UNION {{<<f>> \o rest : f \in FormsOfSize(k), rest \in FormSeqsOfSize(n - k)} :
                   k \in 1..n}

Forms(n) == UNION {FormsOfSize(k) : k \in 1..n}

AllForms == Forms(MaxFormTokens)

SmallForms == Forms(MaxFormTokens - 3)

AppForms == AllForms \ Atoms

DefForms ==
    {DefForm(<<"x">>, <<rhs>>) : rhs \in AllForms}
    \cup {DefForm(<<"x">>, <<rhs, extra>>) : rhs \in SmallForms, extra \in SmallForms}

\* (fn (p1 ... pn) (s1 ... sm)) with up to two parameters, duplicates among
\* them, and a body of m >= 0 statements.
FnForms ==
    {FnForm(parameters, statements) :
        parameters \in SeqsUpTo({<<"a">>, <<"b">>}, 2),
        statements \in UNION {FormSeqsOfSize(k) : k \in 0..(MaxFormTokens - 3)}}

\* ( i1 ... in ): a parenthesized form whose first item is not an identifier.
GroupForms ==
    {GroupForm(items) :
        items \in {i \in UNION {FormSeqsOfSize(k) : k \in 1..(MaxFormTokens - 3)} :
                      i[1] # AtomForm(Identifier(<<"a">>))}}

\* The tokens of a form, in source order.
RECURSIVE Render(_)
Render(f) ==
    CASE f.form = "atom" -> <<f.token>>
      [] f.form = "app" ->
            <<OpenParen, Identifier(f.name)>>
            \o Flatten([i \in 1..Len(f.args) |-> Render(f.args[i])])
            \o <<CloseParen>>
      [] f.form = "def" ->
            <<OpenParen, Def, Identifier(f.name)>>
            \o Flatten([i \in 1..Len(f.rest) |-> Render(f.rest[i])])
            \o <<CloseParen>>
      [] f.form = "group" ->
            <<OpenParen>>
            \o Flatten([i \in 1..Len(f.items) |-> Render(f.items[i])])
            \o <<CloseParen>>
      [] f.form = "fn" ->
            <<OpenParen, Fn, OpenParen>>
            \o [i \in 1..Len(f.parameters) |-> Identifier(f.parameters[i])]
            \o <<CloseParen, OpenParen>>
            \o Flatten([i \in 1..Len(f.statements) |-> Render(f.statements[i])])
            \o <<CloseParen, CloseParen>>

\* The AST the reduction rules assign to a form.
RECURSIVE Reduce(_)
Reduce(f) ==
    CASE f.form = "atom" ->
            IF f.token.kind = "Number"
            THEN NumberExpr(f.token.val)
            ELSE VariableExpr(f.token.name)
      [] f.form = "app" ->
            EvaluateExpr(f.name, [i \in 1..Len(f.args) |-> Reduce(f.args[i])])
      [] f.form = "def" ->
            EvaluateExpr(ASSIGN, <<VariableExpr(f.name), Reduce(f.rest[1])>>)
      [] f.form = "fn" ->
            FunctionExpr(f.parameters,
                         [i \in 1..Len(f.statements) |-> Reduce(f.statements[i])])

TokenAlphabet ==
    {OpenParen, CloseParen, Def, Fn, Identifier(<<"a">>), Number(<<1, 0>>), Unknown("@")}

PlusTokens ==
    <<OpenParen, Identifier(<<"+">>), Number(<<1, 0>>), Number(<<2, 0>>), CloseParen>>

FnTokens ==
    <<OpenParen, Fn, OpenParen, Identifier(<<"a">>), Identifier(<<"b">>), CloseParen,
      OpenParen, Identifier(<<"a">>), CloseParen, CloseParen>>

FnTwoStatementsTokens ==
    <<OpenParen, Fn, OpenParen, CloseParen, OpenParen,
      OpenParen, Identifier(<<"a">>), CloseParen,
      OpenParen, Identifier(<<"b">>), CloseParen, CloseParen, CloseParen>>

FnNoBodyTokens == <<OpenParen, Fn, OpenParen, CloseParen, CloseParen>>

DefInsideTokens ==
    <<OpenParen, Identifier(<<"a">>), Def, Identifier(<<"a">>), Number(<<1, 0>>),
      CloseParen>>

UnknownNestedTokens ==
    <<OpenParen, Identifier(<<"a">>), OpenParen, Identifier(<<"a">>), Unknown("@"),
      CloseParen, CloseParen>>

WrappedFnTokens == <<OpenParen>> \o FnTokens \o <<CloseParen>>

ScenarioTokens ==
    {PlusTokens, FnTokens, FnTwoStatementsTokens, FnNoBodyTokens, DefInsideTokens,
     UnknownNestedTokens, WrappedFnTokens}

CoreChars == {" ", "#", "\n", "(", ")", "a", "1"}

PlusChars == <<"(", "+", " ", "1", " ", "2", ")">>

DefChars == <<"(", "d", "e", "f", " ", "x", " ", "5", ")">>

FnNoBodyChars == <<"(", "f", "n", " ", "(", ")", " ", ")">>

FnChars == <<"(", "f", "n", " ", "(", "a", " ", "b", ")", " ", "(", "a", ")", ")">>

CommentChars ==
    {<<" ", " ", "#", " ", "a", " ", "\n", " ", "#", " ", "b">>,
     <<" ", " ", "#", " ", "a", " ", "\r", " ", "#", " ", "b">>,
     <<" ", "#", "#", " ", "(", "1", " ", " ">>,
     <<"#", "a", "\r", "\n", "#", "b">>}

ScenarioChars ==
    {PlusChars, DefChars, FnChars, FnNoBodyChars} \cup CommentChars
    \cup {<<c>> : c \in {"+", "-", "*", "/"}}

\* What Init draws: a character stream, a token stream, or a stream of forms.
CharInputs ==
    {[family |-> "chars", chars |-> c] : c \in SeqsUpTo(CoreChars, MaxInputLen) \cup ScenarioChars}

\* Character streams that only the tokenizer is run on: runs of digits and
\* dots among spaces and letters.
NumericChars == {"1", ".", " ", "a"}

BadNumberChars == <<"1", "2", "0", ".", "0", ".", "1">>

\* Identifier-shaped runs: every stream over the letters of def, fn and defn,
\* and the remaining reserved words next to runs that only resemble them.
KeywordChars == {"d", "e", "f", "n", " "}

ReservedWordsChars ==
    {<<"n", "s", " ", "q", "u", "o", "t", "e", " ", "i", "f">>,
     <<"d", "e", "f", "x", " ", "f", "n", "_", "1", " ", "d", "e", "f">>,
     <<"q", "u", "o", "t", "e", "d", " ", "i", "f", "f", " ", "n", "s", "1">>,
     <<"x", "d", "e", "f", " ", "_", "i", "f", " ", "1", "f", "n">>}

TokenizerInputs ==
    CharInputs
    \cup {[family |-> "chars", chars |-> c] :
             c \in SeqsUpTo(NumericChars, MaxInputLen) \cup {BadNumberChars}
                   \cup SeqsUpTo(KeywordChars, MaxInputLen) \cup ReservedWordsChars}

TokenInputs ==
    {[family |-> "tokens", tokens |-> t] :
        t \in SeqsUpTo(TokenAlphabet, MaxTokens) \cup ScenarioTokens}

FormInputs ==
    {[family |-> "forms", forms |-> <<f>>] : f \in AllForms \cup DefForms \cup FnForms \cup GroupForms}
    \cup {[family |-> "forms", forms |-> fs] :
            fs \in SeqsUpTo(SmallForms, MaxCalls - 1) \ SeqsUpTo(SmallForms, 1)}

InputTokens(in) ==
    IF in.family = "tokens"
    THEN in.tokens
    ELSE Flatten([i \in 1..Len(in.forms) |-> Render(in.forms[i])])

\* new_with_zeros gives every token the same span; here the i-th token gets
\* a span of its own so that positions in errors can be told apart.
SpanOf(i) == [from |-> Position(1, 2 * (i - 1)), to |-> Position(1, 2 * (i - 1) + 1)]

WithSpans(tokens) ==
    [i \in 1..Len(tokens) |-> TokenAndSpan(tokens[i], SpanOf(i).from, SpanOf(i).to)]

MockItems(tokens) ==
    [i \in 1..Len(tokens) |-> [ok |-> TRUE, tas |-> WithSpans(tokens)[i]]]

\* A MockyTokenizer whose results hold errors: BadToken marks the places of
\* the stream where the tokenizer returns Err(ReadError) instead of a token.
BadToken == [kind |-> "Bad"]

ErrorAlphabet == {OpenParen, CloseParen, Identifier(<<"a">>), BadToken}

ErrorInputs ==
    {[family |-> "items", tokens |-> t] :
        t \in {u \in SeqsUpTo(ErrorAlphabet, MaxTokens) :
                  \E i \in 1..Len(u) : u[i] = BadToken}}

ErrorItems(tokens) ==
    [i \in 1..Len(tokens) |->
        IF tokens[i] = BadToken
        THEN ErrToken(ReadError(<<"w", "h", "o">>, SpanOf(i).from, SpanOf(i).from))
        ELSE OkToken(tokens[i], SpanOf(i).from, SpanOf(i).to)]

\* -------------------------------------------------------------------- state
VARIABLES
    mode,           \* "tokenize", "parse" (GreedyTokenizer), "mock" or "errors" (MockyTokenizer)
    input,          \* the input drawn by Init
    inbuf, line, position, current_char,    \* the GreedyTokenizer
    returns,        \* the MockyTokenizer
    output          \* one record per call made so far

vars == <<mode, input, inbuf, line, position, current_char, returns, output>>

Tokenizer ==
    [inbuf |-> inbuf, line |-> line, position |-> position, current_char |-> current_char]

SetTokenizer(t) ==
    /\ inbuf' = t.inbuf
    /\ line' = t.line
    /\ position' = t.position
    /\ current_char' = t.current_char

Init ==
    /\ output = <<>>
    /\ \/ /\ mode \in {"tokenize", "parse"}
          /\ input \in IF mode = "tokenize" THEN TokenizerInputs ELSE CharInputs
          /\ LET t == GreedyTokenizerNew(input.chars)
             IN  /\ inbuf = t.inbuf
                 /\ line = t.line
                 /\ position = t.position
                 /\ current_char = t.current_char
          /\ returns = <<>>
       \/ /\ mode = "mock"
          /\ input \in TokenInputs \cup FormInputs
          /\ LET t == GreedyTokenizerNew(<<>>)
             IN  /\ inbuf = t.inbuf
                 /\ line = t.line
                 /\ position = t.position
                 /\ current_char = t.current_char
          /\ returns = MockyTokenizerNew(MockItems(InputTokens(input)))
       \/ /\ mode = "errors"
          /\ input \in ErrorInputs
          /\ LET t == GreedyTokenizerNew(<<>>)
             IN  /\ inbuf = t.inbuf
                 /\ line = t.line
                 /\ position = t.position
                 /\ current_char = t.current_char
          /\ returns = MockyTokenizerNew(ErrorItems(input.tokens))

IsEof(call) == call.res.ok /\ call.res.tas.token = Eof

EofCount == Cardinality({i \in 1..Len(output) : IsEof(output[i])})

\* The tokenizer after a call of get_token and the result handed to the caller.
Returned(g) ==
    /\ SetTokenizer(g.t)
    /\ output' = Append(output, [res |-> g.res])

\* One call of get_token on the GreedyTokenizer.
GetToken ==
    /\ mode = "tokenize"
    /\ EofCount < MaxEofs
    /\ Returned(get_token(Tokenizer))
    /\ UNCHANGED <<mode, input, returns>>

Panicked == output # <<>> /\ output[Len(output)].out.tag = "Panic"

\* The tokenizer after a call of next_expression and the result handed to
\* the caller.
Parsed(r) ==
    /\ SetTokenizer(r.it.t)
    /\ returns' = r.it.returns
    /\ output' = Append(output, [out |-> r.out, pulled |-> r.pulled, ended |-> r.ended])

\* One call of next_expression on the parser over its tokenizer.
NextExpression ==
    /\ mode \in {"parse", "mock", "errors"}
    /\ Len(output) < MaxCalls
    /\ ~Panicked
    /\ Parsed(next_expression([kind |-> IF mode = "parse" THEN "greedy" ELSE "mock",
                                returns |-> returns, t |-> Tokenizer]))
    /\ UNCHANGED <<mode, input>>

Next == GetToken \/ NextExpression

Spec == Init /\ [][Next]_vars

\* ------------------------------------------------------------------- claims
IsFormInput == mode = "mock" /\ input.family = "forms"

IsTokenInput == mode = "mock" /\ input.family = "tokens"

SingleForm(kind) ==
    IsFormInput /\ Len(input.forms) = 1 /\ input.forms[1].form = kind

\* C1: for every application form (name a1 ... an) of well-formed forms,
\* next_expression returns EvaluateExpr{callee: name, args} where args are
\* the reductions of a1..an in source order, the arguments after a nested
\* parenthesized argument included.
C1_ApplicationKeepsAllArgs ==
    (SingleForm("app") /\ Len(output) >= 1)
        => output[1].out = OkSome(Reduce(input.forms[1]))

\* C2: tokenizing `(+ 1 2)` yields OpenParen, Identifier("+"), Number(1.0),
\* Number(2.0), CloseParen and then end-of-input; parsing these tokens yields
\* EvaluateExpr{callee: "+", args: [NumberExpr(1.0), NumberExpr(2.0)]}; each
\* of + - * / is emitted as a one-character Identifier token.
PlusAST == EvaluateExpr(<<"+">>, <<NumberExpr(<<1, 0>>), NumberExpr(<<2, 0>>)>>)

C2_PlusScenario ==
    /\ (mode = "tokenize" /\ input.chars = PlusChars)
          => \A i \in 1..Len(output) :
                /\ output[i].res.ok
                /\ output[i].res.tas.token =
                       IF i <= Len(PlusTokens) THEN PlusTokens[i] ELSE Eof
    /\ (IsTokenInput /\ input.tokens = PlusTokens /\ Len(output) >= 1)
          => output[1].out = OkSome(PlusAST)
    /\ \A c \in {"+", "-", "*", "/"} :
          (mode = "tokenize" /\ input.chars = <<c>> /\ Len(output) >= 1)
             => output[1].res =
                    OkToken(Identifier(<<c>>), Position(0, 0), Position(0, 0))

C2_Witness ==
    /\ mode = "tokenize"
    /\ input.chars = PlusChars
    /\ EofCount = 1
    /\ Len(output) = Len(PlusTokens) + 1

\* C3: for every token stream that begins with a well-formed balanced
\* parenthesis group, one call of next_expression pulls exactly the tokens of
\* that group and leaves every later token in the tokenizer; on a stream of k
\* consecutive groups the i-th call pulls the i-th group and returns what
\* next_expression returns on that group alone.
Depth(tokens, n) ==
    Cardinality({i \in 1..n : tokens[i] = OpenParen})
    - Cardinality({i \in 1..n : tokens[i] = CloseParen})

\* The first n tokens are one balanced group: an OpenParen closed by the n-th.
IsGroup(tokens, n) ==
    /\ n \in 2..Len(tokens)
    /\ tokens[1] = OpenParen
    /\ Depth(tokens, n) = 0
    /\ \A m \in 1..(n - 1) : Depth(tokens, m) > 0

\* Where the i-th form of a stream of forms starts and ends in its tokens.
FormStart(forms, i) == Len(Flatten([j \in 1..(i - 1) |-> Render(forms[j])])) + 1
FormEnd(forms, i) == Len(Flatten([j \in 1..i |-> Render(forms[j])]))

Alone(items) ==
    next_expression([kind |-> "mock", returns |-> MockyTokenizerNew(items),
                     t |-> GreedyTokenizerNew(<<>>)])

C3_PullsExactlyOneGroup ==
    /\ (mode = "mock" /\ Len(output) >= 1)
          => \A n \in 2..Len(InputTokens(input)) :
                IsGroup(InputTokens(input), n)
                   => /\ output[1].pulled = SubSeq(WithSpans(InputTokens(input)), 1, n)
                      /\ ~output[1].ended
                      /\ Len(output) = 1
                            => returns = MockyTokenizerNew(
                                   SubSeq(MockItems(InputTokens(input)), n + 1,
                                          Len(InputTokens(input))))
    /\ IsFormInput
          => \A i \in 1..Len(output) :
                i <= Len(input.forms)
                   => /\ output[i].pulled =
                             SubSeq(WithSpans(InputTokens(input)),
                                    FormStart(input.forms, i), FormEnd(input.forms, i))
                      /\ output[i].out =
                             Alone(SubSeq(MockItems(InputTokens(input)),
                                          FormStart(input.forms, i),
                                          FormEnd(input.forms, i))).out

C3_Witness ==
    /\ IsFormInput
    /\ Len(input.forms) = 2
    /\ input.forms[1].form = "app"
    /\ input.forms[2].form = "app"
    /\ input.forms[1] # input.forms[2]
    /\ Len(output) = 2
    /\ output[1].out = OkSome(Reduce(input.forms[1]))
    /\ output[2].out = OkSome(Reduce(input.forms[2]))

\* C4: next_expression returns Ok(None) exactly when the token stream ends
\* before any token is pulled in that call, and every call after one that
\* returned Ok(None) returns Ok(None) too.
C4_NoneIffStreamEnded ==
    mode = "mock"
       => /\ \A i \in 1..Len(output) :
                output[i].out = OkNone <=> (output[i].pulled = <<>> /\ output[i].ended)
          /\ \A i \in 1..Len(output) : \A j \in i..Len(output) :
                output[i].out = OkNone => output[j].out = OkNone

C4_Witness ==
    /\ mode = "mock"
    /\ Len(output) = 3
    /\ output[1].out.tag = "OkSome"
    /\ output[2].out = OkNone
    /\ output[3].out = OkNone

\* C5: for all inputs consisting only of whitespace and/or line comments
\* (`#` to end of line, inputs with several lines included), the tokenizer
\* produces no token other than the end-of-input marker, and the parser
\* returns Ok(None).
IsLineBreak(c) == c \in {NEWLINE_CHAR, CARRIAGE_RETURN_CHAR}

InComment(chars, i) ==
    \E j \in 1..i : chars[j] = "#" /\ \A k \in j..i : ~IsLineBreak(chars[k])

OnlyWhitespaceAndComments(chars) ==
    \A i \in 1..Len(chars) :
        chars[i] = SPACE_CHAR \/ IsLineBreak(chars[i]) \/ InComment(chars, i)

TokensBeforeEof ==
    [i \in 1..(Len(output) - EofCount) |-> output[i].res.tas.token]

C5_BlankInputGivesNoTokens ==
    /\ (mode = "tokenize" /\ OnlyWhitespaceAndComments(input.chars))
          => \A i \in 1..Len(output) : IsEof(output[i])
    /\ (mode = "parse" /\ OnlyWhitespaceAndComments(input.chars))
          => \A i \in 1..Len(output) : output[i].out = OkNone

\* C5 as the code has it: on such an input get_token returns one
\* Unknown('\n') / Unknown('\r') per line break, in order, and nothing else
\* before the end-of-input marker, so that only inputs without a line break
\* produce no token but the marker; on a token stream without tokens
\* next_expression returns Ok(None).
UnknownOf(chars) == [i \in 1..Len(chars) |-> Unknown(chars[i])]

C5_BlankInputGivesLineBreakTokens ==
    /\ (mode = "tokenize" /\ OnlyWhitespaceAndComments(input.chars))
          => /\ \A i \in 1..Len(output) : output[i].res.ok
             /\ \A i \in 1..Len(output) :
                   IsEof(output[i]) => \A j \in i..Len(output) : IsEof(output[j])
             /\ EofCount >= 1
                   => TokensBeforeEof = UnknownOf(SelectSeq(input.chars, IsLineBreak))
    /\ (IsTokenInput /\ input.tokens = <<>>)
          => \A i \in 1..Len(output) : output[i].out = OkNone

C5_Witness ==
    /\ mode = "tokenize"
    /\ input.chars = <<" ", " ", "#", " ", "a", " ", "\n", " ", "#", " ", "b">>
    /\ EofCount = 1
    /\ TokensBeforeEof = <<Unknown("\n")>>

\* C6: if the token stream ends while the paren depth of the form being
\* extracted is nonzero, or a CloseParen arrives with no matching OpenParen,
\* next_expression fails with MismatchedParens carrying the `from` position
\* of the last token pulled; a lone `)` and a lone `(` at the end of the
\* stream both fail so.
PulledBefore(i) == Len(Flatten([j \in 1..(i - 1) |-> output[j].pulled]))

\* The tokens still in the tokenizer when the i-th call starts.
Rest(i) ==
    SubSeq(WithSpans(InputTokens(input)), PulledBefore(i) + 1, Len(InputTokens(input)))

TokensOf(tas) == [k \in 1..Len(tas) |-> tas[k].token]

C6_MismatchedParens ==
    mode = "mock"
       => \A i \in 1..Len(output) :
             /\ (Rest(i) # <<>> /\ Rest(i)[1].token = CloseParen)
                   => /\ output[i].out = Err(MismatchedParens(Rest(i)[1].from))
                      /\ output[i].pulled = <<Rest(i)[1]>>
             /\ (/\ Rest(i) # <<>>
                 /\ Rest(i)[1].token = OpenParen
                 /\ \A m \in 1..Len(Rest(i)) : Depth(TokensOf(Rest(i)), m) > 0)
                   => /\ output[i].out =
                             Err(MismatchedParens(Rest(i)[Len(Rest(i))].from))
                      /\ output[i].pulled = Rest(i)
                      /\ output[i].ended

C6_Witness ==
    /\ IsTokenInput
    /\ input.tokens = <<CloseParen, OpenParen, Identifier(<<"a">>)>>
    /\ Len(output) = 2
    /\ output[1].out = Err(MismatchedParens(Position(1, 0)))
    /\ output[2].out = Err(MismatchedParens(Position(1, 4)))

\* C7: for every form (def name rhs) where name is an Identifier token and
\* rhs is exactly one well-formed form, next_expression returns
\* EvaluateExpr{callee: "__assign", args: [VariableExpr(name), reduction of rhs]}.
C7_DefAssignsReducedRhs ==
    (SingleForm("def") /\ Len(input.forms[1].rest) = 1 /\ Len(output) >= 1)
        => output[1].out = OkSome(Reduce(input.forms[1]))

\* C8: whenever the tokens after `def name` inside a form make up more than
\* one form, the first of them parenthesized or not, next_expression fails
\* with UnexpectedExpressionError and never returns an __assign node.
C8_DefRejectsExtraForms ==
    (SingleForm("def") /\ Len(input.forms[1].rest) > 1 /\ Len(output) >= 1)
        => /\ output[1].out.tag = "Err"
           /\ output[1].out.err.kind = "UnexpectedExpressionError"

\* C9: when the reduction of a form comes to a Def token and the token
\* immediately after it is not an Identifier (Fn, Number, OpenParen,
\* CloseParen, ...), next_expression fails with UnexpectedTokenError whose
\* expected is Identifier("_"), whose found is that token and whose from/to
\* are that token's span.
HasGroup(rest) == \E n \in 2..Len(rest) : IsGroup(TokensOf(rest), n)

\* The balanced group that the tokens `rest` start with.
Group(rest) ==
    SubSeq(rest, 1, CHOOSE n \in 2..Len(rest) : IsGroup(TokensOf(rest), n))

FirstDef(g) ==
    CHOOSE d \in 1..Len(g) : g[d].token = Def /\ \A k \in 1..(d - 1) : g[k].token # Def

\* The reduction comes to the first Def of the group g: nothing before it
\* ends the reduction or fails.
DefReached(g) ==
    /\ \E d \in 1..Len(g) : g[d].token = Def
    /\ \A k \in 1..(FirstDef(g) - 1) :
          g[k].token.kind \in {"OpenParen", "Identifier", "Number"}

AfterDef(g) == g[FirstDef(g) + 1]

C10_FnBodyIsApplication ==
    (IsTokenInput /\ input.tokens = FnTokens /\ Len(output) >= 1)
        => output[1].out =
               OkSome(FunctionExpr(<<<<"a">>, <<"b">>>>,
                                   <<EvaluateExpr(<<"a">>, <<>>)>>))

\* C10 as the code has it: `(fn (a b) (a))` is tokenized to OpenParen, Fn,
\* OpenParen, Identifier("a"), Identifier("b"), CloseParen, OpenParen,
\* Identifier("a"), CloseParen, CloseParen, and parsing these tokens returns
\* FunctionExpr{parameters: ["a", "b"], statements: [VariableExpr("a")]}: the
\* interior of the body's brackets is reduced, not the bracketed body.
C10_FnBodyIsInterior ==
    /\ (mode = "tokenize" /\ input.chars = FnChars)
          => /\ \A i \in 1..Len(output) : output[i].res.ok
             /\ TokensBeforeEof = SubSeq(FnTokens, 1, Len(output) - EofCount)
             /\ EofCount >= 1 => Len(output) - EofCount = Len(FnTokens)
    /\ (IsTokenInput /\ input.tokens = FnTokens /\ Len(output) >= 1)
          => output[1].out =
                 OkSome(FunctionExpr(<<<<"a">>, <<"b">>>>, <<VariableExpr(<<"a">>)>>))

C10_Witness ==
    /\ IsTokenInput
    /\ input.tokens = FnTokens
    /\ Len(output) = 1
    /\ output[1].out.tag = "OkSome"
    /\ output[1].out.ast.type = "FunctionExpr"

\* C11: for every form (fn (p1 ... pn) (s1 ... sm)) with m >= 1,
\* next_expression returns a FunctionExpr whose parameters are p1..pn in
\* source order, duplicates kept, and whose statements hold one node per
\* top-level form s1..sm of the body interior, in order; the body of
\* `(fn () ((a) (b)))` yields two statements.
C11_FnKeepsAllStatements ==
    /\ (SingleForm("fn") /\ Len(input.forms[1].statements) >= 1 /\ Len(output) >= 1)
          => output[1].out = OkSome(Reduce(input.forms[1]))
    /\ (IsTokenInput /\ input.tokens = FnTwoStatementsTokens /\ Len(output) >= 1)
          => output[1].out =
                 OkSome(FunctionExpr(<<>>, <<EvaluateExpr(<<"a">>, <<>>),
                                             EvaluateExpr(<<"b">>, <<>>)>>))

\* C12: parsing the input `(fn () )`, a parameter list followed by no body,
\* fails with Err(FunctionNeedsABody).
C12_NoBodyIsFunctionNeedsABody ==
    (IsTokenInput /\ input.tokens = FnNoBodyTokens /\ Len(output) >= 1)
        => output[1].out = Err(FunctionNeedsABody)

\* C12 as the code has it: `(fn () )` is tokenized to OpenParen, Fn,
\* OpenParen, CloseParen, CloseParen, and parsing these tokens fails with
\* UnexpectedTokenError{expected: OpenParen, found: CloseParen} at the span
\* of the token that stands where the body should open.
C12_NoBodyIsUnexpectedToken ==
    /\ (mode = "tokenize" /\ input.chars = FnNoBodyChars)
          => /\ \A i \in 1..Len(output) : output[i].res.ok
             /\ TokensBeforeEof = SubSeq(FnNoBodyTokens, 1, Len(output) - EofCount)
             /\ EofCount >= 1 => Len(output) - EofCount = Len(FnNoBodyTokens)
    /\ (IsTokenInput /\ input.tokens = FnNoBodyTokens /\ Len(output) >= 1)
          => output[1].out =
                 Err(UnexpectedTokenError(OpenParen, CloseParen,
                                          SpanOf(5).from, SpanOf(5).to))

C12_Witness ==
    /\ IsTokenInput
    /\ input.tokens = FnNoBodyTokens
    /\ Len(output) = 1
    /\ output[1].out.tag = "Err"
    /\ output[1].pulled = WithSpans(FnNoBodyTokens)

\* C13: for every form (fn (p1 ... pn) ()) whose parenthesized body has an
\* empty interior, next_expression fails with FunctionNeedsABody; no
\* FunctionExpr with an empty statements sequence is ever returned.
RECURSIVE HasEmptyFunction(_)
HasEmptyFunction(ast) ==
    CASE ast.type = "FunctionExpr" ->
            \/ ast.statements = <<>>
            \/ \E i \in 1..Len(ast.statements) : HasEmptyFunction(ast.statements[i])
      [] ast.type = "EvaluateExpr" ->
            \E i \in 1..Len(ast.args) : HasEmptyFunction(ast.args[i])
      [] OTHER -> FALSE

C13_EmptyBodyIsFunctionNeedsABody ==
    /\ (SingleForm("fn") /\ input.forms[1].statements = <<>> /\ Len(output) >= 1)
          => output[1].out = Err(FunctionNeedsABody)
    /\ mode = "mock"
          => \A i \in 1..Len(output) :
                output[i].out.tag = "OkSome" => ~HasEmptyFunction(output[i].out.ast)

C13_Witness ==
    /\ SingleForm("fn")
    /\ input.forms[1].parameters = <<<<"a">>, <<"b">>>>
    /\ input.forms[1].statements = <<>>
    /\ Len(output) = 1
    /\ output[1].out = Err(FunctionNeedsABody)

\* C14: `def` and `fn` have special meaning only as the first token after an
\* OpenParen: a Def or Fn token at any other position of a form, or as a bare
\* top-level token, never produces an __assign EvaluateExpr or a
\* FunctionExpr; it is reported as a syntax error (UnexpectedTokenError).
IsKeyword(token) == token = Def \/ token = Fn

\* The tokens g hold a keyword, and none of their keywords follows an OpenParen.
OnlyMisplacedKeywords(g) ==
    /\ \E d \in 1..Len(g) : IsKeyword(g[d].token)
    /\ \A d \in 1..Len(g) :
          IsKeyword(g[d].token) => (d = 1 \/ g[d - 1].token # OpenParen)

C14_KeywordsOnlyAtHead ==
    mode = "mock"
       => \A i \in 1..Len(output) :
             (/\ OnlyMisplacedKeywords(output[i].pulled)
              /\ \/ Len(output[i].pulled) = 1
                 \/ IsGroup(TokensOf(output[i].pulled), Len(output[i].pulled)))
                => /\ output[i].out.tag = "Err"
                   /\ output[i].out.err.kind = "UnexpectedTokenError"

\* C15: if the tokenizer yields an error while next_expression is pulling
\* tokens, that call returns ParseError::TokenizerError wrapping the same
\* error, pulls no further token, and returns no AST for the tokens already
\* pulled; the next call starts at the token immediately after the failing
\* one.
IsTokenizerError(out) == out.tag = "Err" /\ out.err.kind = "TokenizerError"

\* The results a call took from the tokenizer: its tokens and, when it
\* failed on one, the failing result.
Taken(call) == Len(call.pulled) + IF IsTokenizerError(call.out) THEN 1 ELSE 0

RECURSIVE TakenBefore(_)
TakenBefore(i) == IF i <= 1 THEN 0 ELSE TakenBefore(i - 1) + Taken(output[i - 1])

\* The results still in the tokenizer when the i-th call starts.
RestItems(i) ==
    SubSeq(ErrorItems(input.tokens), TakenBefore(i) + 1, Len(input.tokens))

RestTokens(i) == SubSeq(input.tokens, TakenBefore(i) + 1, Len(input.tokens))

\* The e-th of the tokens is the first error, and no form is complete before it.
ErrorWhilePulling(tokens, e) ==
    /\ tokens[e] = BadToken
    /\ \A k \in 1..(e - 1) : tokens[k] # BadToken
    /\ e > 1 => (tokens[1] = OpenParen /\ \A m \in 1..(e - 1) : Depth(tokens, m) > 0)

C15_TokenizerErrorIsWrapped ==
    mode = "errors"
       => /\ \A i \in 1..Len(output) : \A e \in 1..Len(RestTokens(i)) :
                ErrorWhilePulling(RestTokens(i), e)
                   => /\ output[i].out = Err(TokenizerError(RestItems(i)[e].err))
                      /\ output[i].pulled =
                             [k \in 1..(e - 1) |-> RestItems(i)[k].tas]
                      /\ ~output[i].ended
          /\ returns = MockyTokenizerNew(RestItems(Len(output) + 1))

C15_Witness ==
    /\ mode = "errors"
    /\ input.tokens = <<OpenParen, Identifier(<<"a">>), BadToken, Identifier(<<"a">>)>>
    /\ Len(output) = 2
    /\ IsTokenizerError(output[1].out)
    /\ output[2].out = OkSome(VariableExpr(<<"a">>))

\* C16: a maximal run of digit-or-dot characters that is not a valid float
\* (`120.0.1`, a lone `.`) makes get_token return ReadError whose message
\* holds the whole run and whose span covers the whole run; the tokenizer is
\* then positioned at the first character after the run, so that the next
\* get_token returns the token that starts there (for `120.0.1`: from (0,0),
\* to (0,6), then end-of-input at column 7).
Remaining ==
    IF current_char.chr = None THEN <<>> ELSE <<current_char.chr>> \o inbuf

\* The length of the longest prefix of chars made of characters of S.
PrefixIn(chars, S) ==
    CHOOSE n \in 0..Len(chars) :
        /\ \A k \in 1..n : chars[k] \in S
        /\ n < Len(chars) => chars[n + 1] \notin S

AfterSpaces == SubSeq(Remaining, PrefixIn(Remaining, {SPACE_CHAR}) + 1, Len(Remaining))

Run == SubSeq(AfterSpaces, 1, PrefixIn(AfterSpaces, Digits \cup {"."}))

RunFrom ==
    Position(current_char.line,
             current_char.position + PrefixIn(Remaining, {SPACE_CHAR}))

RunTo == Position(RunFrom.line, RunFrom.position + Len(Run) - 1)

IsValidFloat(run) ==
    /\ Cardinality({k \in 1..Len(run) : run[k] = "."}) <= 1
    /\ \E k \in 1..Len(run) : run[k] \in Digits

BadRunStep ==
    (mode = "tokenize" /\ Run # <<>> /\ ~IsValidFloat(Run))
       => /\ output' = Append(output, [res |-> ErrToken(ReadError(Run, RunFrom, RunTo))])
          /\ Remaining' = SubSeq(AfterSpaces, Len(Run) + 1, Len(AfterSpaces))
          /\ current_char'.line = RunTo.line
          /\ current_char'.position = RunTo.position + 1

BadNumberThenEof ==
    (mode = "tokenize" /\ input.chars = BadNumberChars /\ Len(output) = 1)
       => output'[2].res = OkToken(Eof, Position(0, 7), Position(0, 7))

C16_BadNumberIsReadError == [][BadRunStep /\ BadNumberThenEof]_vars

C16_Witness ==
    /\ mode = "tokenize"
    /\ input.chars = BadNumberChars
    /\ Len(output) = 2
    /\ output[1].res =
           ErrToken(ReadError(BadNumberChars, Position(0, 0), Position(0, 6)))
    /\ output[2].res = OkToken(Eof, Position(0, 7), Position(0, 7))

\* C17: whenever reduction reaches an Unknown(c) token, at top level or at
\* any nesting depth, next_expression fails with UnexpectedTokenError{
\* expected: None, found: Unknown(c), from/to: the span of that token}.
IsWholeForm(pulled) ==
    Len(pulled) = 1 \/ IsGroup(TokensOf(pulled), Len(pulled))

\* The u-th of the tokens g is an Unknown and the reduction comes to it:
\* only parentheses opening, identifiers and numbers stand before it.
UnknownReached(g, u) ==
    /\ g[u].token.kind = "Unknown"
    /\ \A k \in 1..(u - 1) : g[k].token.kind \in {"OpenParen", "Identifier", "Number"}

C17_UnknownIsUnexpectedToken ==
    mode = "mock"
       => \A i \in 1..Len(output) : \A u \in 1..Len(output[i].pulled) :
             (IsWholeForm(output[i].pulled) /\ UnknownReached(output[i].pulled, u))
                => output[i].out =
                       Err(UnexpectedTokenError(NoToken, output[i].pulled[u].token,
                                                output[i].pulled[u].from,
                                                output[i].pulled[u].to))

C17_Witness ==
    /\ IsTokenInput
    /\ input.tokens = UnknownNestedTokens
    /\ Len(output) = 1
    /\ output[1].out =
           Err(UnexpectedTokenError(NoToken, Unknown("@"), SpanOf(5).from, SpanOf(5).to))

\* C18: a parenthesized form whose first reduced node is not an identifier
\* and is not a lone EvaluateExpr/FunctionExpr (e.g. `(1)`) fails with
\* UnexpectedExpressionError whose expected is VariableExpr("_") and whose
\* found is the first reduced node.
C18_GroupNeedsCallee ==
    (/\ SingleForm("group")
     /\ ~(Len(input.forms[1].items) = 1 /\ input.forms[1].items[1].form = "app")
     /\ Len(output) >= 1)
        => /\ output[1].out.tag = "Err"
           /\ output[1].out.err.kind = "UnexpectedExpressionError"
           /\ output[1].out.err.expected = VariableExpr(<<"_">>)
           /\ output[1].out.err.found = Reduce(input.forms[1].items[1])

\* C19: a bare top-level token that is a Number(v) or an Identifier(name) is
\* itself one top-level form: next_expression pulls only that single token
\* and returns NumberExpr(v) or VariableExpr(name) respectively.
LeafOf(token) ==
    IF token.kind = "Number" THEN NumberExpr(token.val) ELSE VariableExpr(token.name)

C19_BareLeafIsAForm ==
    mode = "mock"
       => \A i \in 1..Len(output) :
             (Rest(i) # <<>> /\ Rest(i)[1].token.kind \in {"Number", "Identifier"})
                => /\ output[i].pulled = <<Rest(i)[1]>>
                   /\ output[i].out = OkSome(LeafOf(Rest(i)[1].token))

C19_Witness ==
    /\ IsTokenInput
    /\ input.tokens = <<Number(<<1, 0>>), Identifier(<<"a">>), OpenParen>>
    /\ Len(output) = 2
    /\ output[1].out = OkSome(NumberExpr(<<1, 0>>))
    /\ output[2].out = OkSome(VariableExpr(<<"a">>))
    /\ returns = MockyTokenizerNew(<<MockItems(input.tokens)[3]>>)

\* C20: a run that starts at an alphabetic character and extends greedily over
\* alphanumeric-or-underscore characters is emitted as one token spanning the
\* whole run: the keyword token when the run is exactly ns, def, defn, fn,
\* quote or if, and otherwise Identifier(run); the tokenizer is left at the
\* character after the run, so no keyword is split off a longer run.
ReservedTable ==
    {<<<<"n", "s">>, Ns>>, <<<<"d", "e", "f">>, Def>>,
     <<<<"d", "e", "f", "n">>, Defn>>, <<<<"f", "n">>, Fn>>,
     <<<<"q", "u", "o", "t", "e">>, Quote>>, <<<<"i", "f">>, If>>}

IdentRun ==
    IF AfterSpaces # <<>> /\ AfterSpaces[1] \in Letters
    THEN SubSeq(AfterSpaces, 1,
                PrefixIn(AfterSpaces, Letters \cup Digits \cup {"_"}))
    ELSE <<>>

IdentRunToken ==
    IF \E e \in ReservedTable : e[1] = IdentRun
    THEN (CHOOSE e \in ReservedTable : e[1] = IdentRun)[2]
    ELSE Identifier(IdentRun)

IdentRunTo == Position(RunFrom.line, RunFrom.position + Len(IdentRun) - 1)

IdentRunStep ==
    (mode = "tokenize" /\ IdentRun # <<>>)
       => /\ output' = Append(output, [res |-> OkToken(IdentRunToken, RunFrom, IdentRunTo)])
          /\ Remaining' = SubSeq(AfterSpaces, Len(IdentRun) + 1, Len(AfterSpaces))

C20_KeywordIffWholeRunReserved == [][IdentRunStep]_vars

C20_Witness ==
    /\ mode = "tokenize"
    /\ input.chars = <<"d", "e", "f", "x", " ", "f", "n", "_", "1", " ", "d", "e", "f">>
    /\ Len(output) = 3
    /\ output[1].res =
           OkToken(Identifier(<<"d", "e", "f", "x">>), Position(0, 0), Position(0, 3))
    /\ output[2].res =
           OkToken(Identifier(<<"f", "n", "_", "1">>), Position(0, 5), Position(0, 8))
    /\ output[3].res = OkToken(Def, Position(0, 10), Position(0, 12))

\* C21: the spans of the tokens and read errors returned before the
\* end-of-input marker are nonempty, pairwise disjoint and in increasing
\* source order; together they cover exactly the characters read so far that
\* are neither a space nor inside a comment; and the literals of the tokens,
\* concatenated in order, are those characters in order, so the character
\* that ends an identifier or a number starts the next token.
LineOf(chars, k) == Cardinality({j \in 1..(k - 1) : IsLineBreak(chars[j])})

ColumnOf(chars, k) ==
    Cardinality({j \in 1..(k - 1) : \A i \in j..(k - 1) : ~IsLineBreak(chars[i])})

PositionOf(chars, k) == Position(LineOf(chars, k), ColumnOf(chars, k))

Consumed == Len(input.chars) - Len(Remaining)

IsContent(chars, k) == chars[k] # SPACE_CHAR /\ ~InComment(chars, k)

ContentIndices == {k \in 1..Consumed : IsContent(input.chars, k)}

NotEof(call) == ~IsEof(call)

Emitted == SelectSeq(output, NotEof)

SpanOfItem(call) ==
    IF call.res.ok
    THEN [from |-> call.res.tas.from, to |-> call.res.tas.to]
    ELSE [from |-> call.res.err.from, to |-> call.res.err.to]

AllPositions(chars) == [k \in 1..Len(chars) |-> PositionOf(chars, k)]

\* The indices of the characters whose positions pos[k] lie within a span.
CoveredBy(pos, span) ==
    {k \in DOMAIN pos :
        /\ pos[k].line = span.from.line
        /\ pos[k].line = span.to.line
        /\ pos[k].position >= span.from.position
        /\ pos[k].position <= span.to.position}

TextAt(chars, indices) ==
    LET first == CHOOSE k \in indices : \A j \in indices : k <= j
    IN  [i \in 1..Cardinality(indices) |-> chars[first + i - 1]]

\* The source text a token stands for; a Number keeps no text of its own, so
\* its literal is the run of digits and dots under its span.
LiteralOf(call, text) ==
    IF ~call.res.ok
    THEN call.res.err.text
    ELSE LET token == call.res.tas.token
         IN  CASE token = OpenParen -> <<"(">>
               [] token = CloseParen -> <<")">>
               [] token.kind = "Identifier" -> token.name
               [] token.kind = "Unknown" -> <<token.chr>>
               [] token.kind = "Number" ->
                     IF \A i \in 1..Len(text) : text[i] \in Digits \cup {"."}
                     THEN text
                     ELSE <<>>
               [] OTHER -> (CHOOSE e \in ReservedTable : e[2] = token)[1]

IsContentOfInput(k) == IsContent(input.chars, k)

ContentText ==
    LET idx == SelectSeq([k \in 1..Consumed |-> k], IsContentOfInput)
    IN  [i \in 1..Len(idx) |-> input.chars[idx[i]]]

\* items are the calls, covered[i] the indices under the span of items[i]
\* and text[i] the characters at those indices.
RoundTrip(items, covered, text) ==
    /\ \A i \in 1..Len(items) :
          /\ covered[i] # {}
          /\ text[i] = LiteralOf(items[i], text[i])
    /\ \A i, j \in 1..Len(items) :
          i < j => \A a \in covered[i], b \in covered[j] : a < b
    /\ UNION {covered[i] : i \in 1..Len(items)} = ContentIndices
    /\ Flatten(text) = ContentText

CoveredOf(items, pos) == [i \in 1..Len(items) |-> CoveredBy(pos, SpanOfItem(items[i]))]

TextsOf(chars, covered) ==
    [i \in 1..Len(covered) |->
        IF covered[i] = {} THEN <<>> ELSE TextAt(chars, covered[i])]

RoundTripOf(items, covered) == RoundTrip(items, covered, TextsOf(input.chars, covered))

C21_SpansRoundTrip ==
    mode = "tokenize"
       => RoundTripOf(Emitted, CoveredOf(Emitted, AllPositions(input.chars)))

C21_Witness ==
    /\ mode = "tokenize"
    /\ input.chars = <<"(", "a", "1", ")">>
    /\ Len(output) = 3
    /\ output[2].res = OkToken(Identifier(<<"a", "1">>), Position(0, 1), Position(0, 2))
    /\ output[3].res = OkToken(CloseParen, Position(0, 3), Position(0, 3))

\* C22: reduction of one nesting level stops only at the CloseParen that
\* closes that level: for every application form, recursively_evaluate on the
\* tokens that follow the opening parenthesis succeeds and returns as its
\* count the index of the form's own closing parenthesis, the last token of
\* that slice, however many nested groups the level holds.
LevelOf(pulled) == SliceFrom(pulled, 1)

C22_StopsAtOwnCloseParen ==
    (SingleForm("app") /\ Len(output) >= 1)
        => /\ recursively_evaluate(LevelOf(output[1].pulled)).tag = "Ok"
           /\ recursively_evaluate(LevelOf(output[1].pulled)).parsed =
                  Len(LevelOf(output[1].pulled)) - 1

\* C23: the k-th character read from the stream gets the zero-based position
\* (line, column) where line is the number of \n and \r characters before it
\* and column is the number of characters since the last of them; each \n
\* and each \r adds one to line and resets column, so \r\n adds two. After
\* every call the tokenizer holds the next unread character at that position.
RECURSIVE ReadAll(_)
ReadAll(t) ==
    IF t.current_char.chr = None
    THEN <<>>
    ELSE <<t.current_char>> \o ReadAll(step_next_char(t))

C23_PositionsCountLineBreaks ==
    mode = "tokenize"
       => /\ ReadAll(GreedyTokenizerNew(input.chars)) =
                [k \in 1..Len(input.chars) |->
                    CharAndPosition(input.chars[k], LineOf(input.chars, k),
                                    ColumnOf(input.chars, k))]
          /\ current_char.chr # None
                => current_char =
                       CharAndPosition(input.chars[Consumed + 1],
                                       LineOf(input.chars, Consumed + 1),
                                       ColumnOf(input.chars, Consumed + 1))

C23_Witness ==
    /\ mode = "tokenize"
    /\ input.chars = <<"#", "a", "\r", "\n", "#", "b">>
    /\ Len(output) = 2
    /\ output[1].res = OkToken(Unknown("\r"), Position(0, 2), Position(0, 2))
    /\ output[2].res = OkToken(Unknown("\n"), Position(1, 0), Position(1, 0))
    /\ current_char = CharAndPosition("#", 2, 0)

\* C24: every token returned by get_token has from and to on one line with
\* 0 <= from.column <= to.column; a parenthesis, operator, Unknown or
\* end-of-input token has from = to; an identifier, keyword or number made
\* of n characters has to.column = from.column + n - 1, so the `position - 1`
\* that computes it never goes below zero.
IndexAt(chars, pos) == CHOOSE k \in 1..Len(chars) : PositionOf(chars, k) = pos

\* The number of characters of the run that a token starting at pos is made of.
RunLengthAt(chars, pos, S) ==
    PrefixIn(SubSeq(chars, IndexAt(chars, pos), Len(chars)), S)

CharsOf(tas) ==
    CASE tas.token.kind = "Identifier" /\ from_char(tas.token.name[1]) = NoToken ->
            RunLengthAt(input.chars, tas.from, Letters \cup Digits \cup {"_"})
      [] tas.token.kind \in {"Ns", "Def", "Defn", "Fn", "Quote", "If"} ->
            RunLengthAt(input.chars, tas.from, Letters \cup Digits \cup {"_"})
      [] tas.token.kind = "Number" ->
            RunLengthAt(input.chars, tas.from, Digits \cup {"."})
      [] OTHER -> 1

C24_SpansAreInclusive ==
    mode = "tokenize"
       => \A i \in 1..Len(output) :
             output[i].res.ok
                => LET tas == output[i].res.tas
                   IN  /\ tas.from.line = tas.to.line
                       /\ 0 <= tas.from.position
                       /\ tas.from.position <= tas.to.position
                       /\ tas.to.position = tas.from.position + CharsOf(tas) - 1

C24_Witness ==
    /\ mode = "tokenize"
    /\ input.chars = <<"1", ".", "1", "a">>
    /\ Len(output) = 3
    /\ output[1].res = OkToken(Number(<<11, 1>>), Position(0, 0), Position(0, 2))
    /\ output[2].res = OkToken(Identifier(<<"a">>), Position(0, 3), Position(0, 3))
    /\ output[3].res = OkToken(Eof, Position(0, 4), Position(0, 4))

\* C25: when, after leading spaces, the next character is `#`, the call of
\* get_token skips up to but not including the next \n or \r: it returns that
\* character as Unknown at the character's own position and leaves everything
\* after it unread, a comment on the following line included; with no line
\* break left it returns the end-of-input marker at the end of the stream.
CommentLength(chars) ==
    CHOOSE n \in 0..Len(chars) :
        /\ \A k \in 1..n : ~IsLineBreak(chars[k])
        /\ n < Len(chars) => IsLineBreak(chars[n + 1])

AfterComment ==
    SubSeq(AfterSpaces, CommentLength(AfterSpaces) + 1, Len(AfterSpaces))

CommentEnd == Position(RunFrom.line, RunFrom.position + CommentLength(AfterSpaces))

CommentStep ==
    (mode = "tokenize" /\ AfterSpaces # <<>> /\ AfterSpaces[1] = "#")
       => IF AfterComment # <<>>
          THEN /\ output' = Append(output, [res |-> OkToken(Unknown(AfterComment[1]),
                                                             CommentEnd, CommentEnd)])
               /\ Remaining' = Tail(AfterComment)
          ELSE /\ output' = Append(output, [res |-> OkToken(Eof, CommentEnd, CommentEnd)])
               /\ Remaining' = <<>>

C25_CommentEndsBeforeLineBreak == [][CommentStep]_vars

C25_Witness ==
    /\ mode = "tokenize"
    /\ input.chars = <<" ", " ", "#", " ", "a", " ", "\r", " ", "#", " ", "b">>
    /\ Len(output) = 2
    /\ output[1].res = OkToken(Unknown("\r"), Position(0, 6), Position(0, 6))
    /\ output[2].res = OkToken(Eof, Position(1, 4), Position(1, 4))

\* C26: for every application form X, `(X)` parses to the same AST as X, and
\* so does the wrapped fn form `((fn (a b) (a)))`; a wrapper that holds a
\* parenthesized form followed by further forms, as in `((f) a)`, does not
\* come out as the AST of its first form.
ParseOf(form) ==
    next_expression([kind |-> "mock",
                     returns |-> MockyTokenizerNew(MockItems(Render(form))),
                     t |-> Tokenizer]).out

C26_WrapperIsTransparent ==
    /\ (SingleForm("group") /\ Len(output) >= 1
           /\ input.forms[1].items[1].form = "app")
          => IF Len(input.forms[1].items) = 1
             THEN output[1].out = ParseOf(input.forms[1].items[1])
             ELSE output[1].out # ParseOf(input.forms[1].items[1])
    /\ (IsTokenInput /\ input.tokens = WrappedFnTokens /\ Len(output) >= 1)
          => output[1].out =
                 OkSome(FunctionExpr(<<<<"a">>, <<"b">>>>, <<VariableExpr(<<"a">>)>>))

\* C27: on every token stream next_expression never returns
\* ParseError::UnknownError: whenever extraction succeeds with a non-empty
\* group and reduction of the group does not fail, the reduction yields
\* exactly one top-level AST node, which is the node returned.
ExtractedGroup(call) ==
    /\ call.pulled # <<>>
    /\ Depth(TokensOf(call.pulled), Len(call.pulled)) = 0

C27_NeverUnknownError ==
    mode \in {"mock", "errors"}
       => \A i \in 1..Len(output) :
             /\ output[i].out.tag = "Err" => output[i].out.err.kind # "UnknownError"
             /\ (ExtractedGroup(output[i])
                    /\ recursively_evaluate(output[i].pulled).tag = "Ok")
                   => /\ Len(recursively_evaluate(output[i].pulled).result) = 1
                      /\ output[i].out =
                             OkSome(recursively_evaluate(output[i].pulled).result[1])

C27_Witness ==
    /\ IsTokenInput
    /\ input.tokens = <<OpenParen, Identifier(<<"a">>), Number(<<1, 0>>), CloseParen>>
    /\ Len(output) = 1
    /\ output[1].out = OkSome(EvaluateExpr(<<"a">>, <<NumberExpr(<<1, 0>>)>>))

\* C28: every Identifier token returned by get_token has a non-empty name,
\* and in every AST returned by next_expression each EvaluateExpr, at every
\* depth, has as callee either __assign or the name of an Identifier token of
\* the form, which is never empty.
RECURSIVE Callees(_)
Callees(ast) ==
    CASE ast.type = "EvaluateExpr" ->
            {ast.callee} \cup UNION {Callees(ast.args[i]) : i \in 1..Len(ast.args)}
      [] ast.type = "FunctionExpr" ->
            UNION {Callees(ast.statements[i]) : i \in 1..Len(ast.statements)}
      [] OTHER -> {}

IdentifierNames(pulled) ==
    {pulled[k].token.name : k \in {j \in 1..Len(pulled) : pulled[j].token.kind = "Identifier"}}

C28_CalleeNeverEmpty ==
    /\ mode = "tokenize"
          => \A i \in 1..Len(output) :
                (output[i].res.ok /\ output[i].res.tas.token.kind = "Identifier")
                   => output[i].res.tas.token.name # <<>>
    /\ mode = "mock"
          => \A i \in 1..Len(output) :
                output[i].out.tag = "OkSome"
                   => /\ Callees(output[i].out.ast)
                             \subseteq {ASSIGN} \cup IdentifierNames(output[i].pulled)
                      /\ <<>> \notin Callees(output[i].out.ast)

C28_Witness ==
    /\ SingleForm("def")
    /\ input.forms[1].rest = <<AppForm(<<"f">>, <<AtomForm(Identifier(<<"a">>))>>)>>
    /\ Len(output) = 1
    /\ output[1].out =
           OkSome(EvaluateExpr(ASSIGN,
                               <<VariableExpr(<<"x">>),
                                 EvaluateExpr(<<"f">>, <<VariableExpr(<<"a">>)>>)>>))

\* C29: on every finite stream of OpenParen, CloseParen, Def, Fn, Identifier,
\* Number and Unknown tokens each call of next_expression completes with Ok
\* or Err: none aborts on an index out of range or on taking a value out of
\* an empty result.
C29_NeverAborts ==
    IsTokenInput => \A i \in 1..Len(output) : output[i].out.tag # "Panic"

\* C30: a call of get_token returns the end-of-input marker exactly when
\* nothing but spaces and one comment without a line break is left unread,
\* and then the stream is exhausted, the marker stands at the position after
\* the last character and every character has been read; once the marker has
\* been returned, every later call returns the same marker with the same
\* from and to and changes nothing in the tokenizer.
OnlySkippableLeft ==
    AfterSpaces = <<>> \/ (AfterSpaces[1] = "#" /\ AfterComment = <<>>)

EndOfInput == Position(LineOf(input.chars, Len(input.chars) + 1),
                       ColumnOf(input.chars, Len(input.chars) + 1))

EofStep ==
    (mode = "tokenize" /\ output' # output)
       => /\ IsEof(output'[Len(output')]) <=> OnlySkippableLeft
          /\ IsEof(output'[Len(output')])
                => /\ output' = Append(output, [res |-> OkToken(Eof, EndOfInput, EndOfInput)])
                   /\ inbuf' = <<>>
                   /\ current_char' = CharAndPosition(None, EndOfInput.line,
                                                      EndOfInput.position)
                   /\ Consumed' = Len(input.chars)
          /\ (output # <<>> /\ IsEof(output[Len(output)]))
                => /\ output' = Append(output, output[Len(output)])
                   /\ UNCHANGED <<inbuf, line, position, current_char>>

C30_EofIsFinalAndStable == [][EofStep]_vars

C30_Witness ==
    /\ mode = "tokenize"
    /\ input.chars = <<"a", " ", " ">>
    /\ Len(output) = 3
    /\ output[1].res = OkToken(Identifier(<<"a">>), Position(0, 0), Position(0, 0))
    /\ output[2].res = OkToken(Eof, Position(0, 3), Position(0, 3))
    /\ output[3].res = OkToken(Eof, Position(0, 3), Position(0, 3))
    /\ current_char = CharAndPosition(None, 0, 3)

====
